---- MODULE Spec2Model ----
(***************************************************************************)
(* Model of converge's template preprocessor                               *)
(* (render/preprocessor/preprocessor.go):                                  *)
(*   - the reference resolver: Prefixes, VertexSplit, VertexSplitTraverse, *)
(*     TraverseUntilModule, DesugarCall;                                    *)
(*   - the value-level field introspector: FieldMap, EvalTerms;            *)
(*   - the type-keyed field-name cache: fieldMap, addFieldsToMap,          *)
(*     LookupCanonicalFieldName.                                            *)
(*                                                                         *)
(* A Go string is a sequence of symbols.  A symbol is either the dot "."   *)
(* or a chunk of characters that holds no dot ("root", "a", "|", ...), so  *)
(* splitting, joining, slicing and formatting are computed symbol by       *)
(* symbol as the code computes them character by character.                *)
(***************************************************************************)
EXTENDS Integers, Sequences, FiniteSets, TLC

VARIABLES
    \* the reference resolver
    op,           \* which entry point of the resolver this run calls
    g,            \* the graph: [vertices, edges, kind]
    toFind,       \* the dotted string handed to the resolver
    startingNode, \* VertexSplitTraverse: the node the search starts from
    stack,        \* VertexSplitTraverse: the frames of the recursion
    history,      \* VertexSplitTraverse: the visited set shared by all frames
    result,       \* what the resolver call returned
    pc,           \* "call" before the call, "run" inside it, "done" after
    \* the value-level field introspector
    fop,          \* which entry point of the introspector this run calls
    arg,          \* the value handed to FieldMap / EvalTerms
    terms,        \* EvalTerms: the term accessors
    obj,          \* EvalTerms: the value the fold has reached
    termIdx,      \* EvalTerms: the term the loop is at
    fret,         \* what the introspector call returned
    fpc,          \* "call" before the call, "loop" inside EvalTerms, "done" after
    \* the type-keyed field map cache and the goroutines that look names up
    cacheVals,    \* fieldMapCache.vals: type name -> reference to a map
    heap,         \* the maps: reference -> (lowercase name -> declared name)
    calls,        \* per goroutine, the lookup it is in: its stack and its m
    lookups,      \* how many lookups have been started
    returned,     \* every result a lookup has returned, by type and term
    crashed       \* the runtime has ended the program: concurrent map access

resolverVars == <<op, g, toFind, startingNode, stack, history, result, pc>>

fieldVars == <<fop, arg, terms, obj, termIdx, fret, fpc>>

cacheVars == <<cacheVals, heap, calls, lookups, returned, crashed>>

\* what the resolver leaves alone
introspection == <<fieldVars, cacheVars>>

\* what the value-level introspector leaves alone
resolution == <<resolverVars, cacheVars>>

vars == <<resolverVars, fieldVars, cacheVars>>

\* the goroutines that call LookupCanonicalFieldName
Goroutines == {1, 2}

\* a goroutine that is in no lookup
NoCall ==
    [pc |-> "idle", T |-> <<>>, callee |-> <<>>, frames |-> <<>>, m |-> 0,
     conflicts |-> {}]

\* the cache as makeCache leaves it, and no lookup started
CacheIdle ==
    /\ cacheVals = <<>>
    /\ heap = <<>>
    /\ calls = [w \in Goroutines |-> NoCall]
    /\ lookups = 0
    /\ returned = {}
    /\ crashed = FALSE

(***************************************************************************)
(* Bounds of the model.                                                    *)
(***************************************************************************)
\* longest input string, in symbols, handed to VertexSplit / DesugarCall
MaxLen == 5
\* most dependency edges of a graph
MaxEdges == 2

Dot == "."

RootID == <<"root">>

\* The vertex ids graphs are built from: root, two second-level ids and a
\* child of one of them.
VertexUniverse ==
    { <<"root">>,
      <<"root", Dot, "a">>,
      <<"root", Dot, "b">>,
      <<"root", Dot, "a", Dot, "a">> }

\* The symbols of input strings.
Alphabet == {"root", "a", "b", Dot}

\* What a vertex holds, as far as TraverseUntilModule tells values apart.
ModuleKinds == {"module.Module", "module.Preparer", "parse.Node:module"}
OtherKinds == {"parse.Node:file", "task"}

(***************************************************************************)
(* strings                                                                 *)
(***************************************************************************)
RECURSIVE SplitTerms(_)
\* strings.Split(in, "."): the segments between dots; one (empty) segment for
\* a string without a dot.
SplitTerms(in) ==
    IF \A i \in 1..Len(in) : in[i] # Dot
    THEN <<in>>
    ELSE LET i == CHOOSE k \in 1..Len(in) :
                      in[k] = Dot /\ \A j \in 1..(k - 1) : in[j] # Dot
         IN <<SubSeq(in, 1, i - 1)>> \o SplitTerms(SubSeq(in, i + 1, Len(in)))

RECURSIVE JoinWith(_, _)
\* strings.Join(s, sep)
JoinWith(s, sep) ==
    IF Len(s) = 0 THEN <<>>
    ELSE IF Len(s) = 1 THEN s[1]
    ELSE s[1] \o sep \o JoinWith(Tail(s), sep)

JoinTerms(s) == JoinWith(s, <<Dot>>)

RECURSIVE InitsLoop(_, _, _)
\* the loop of Inits: each round puts in[0 : i+1] in front of the results
InitsLoop(in, i, results) ==
    IF i >= Len(in) THEN results
    ELSE InitsLoop(in, i + 1, <<SubSeq(in, 1, i + 1)>> \o results)

Inits(in) == InitsLoop(in, 0, <<>>)

\* Prefixes with the heads taken shortest first
Prefixes_ShortestFirst(in) ==
    LET termSets == Inits(SplitTerms(in))
    IN [k \in 1..Len(termSets) |-> JoinTerms(termSets[Len(termSets) + 1 - k])]

Prefixes(in) ==
    LET termSets == Inits(SplitTerms(in))
    IN [k \in 1..Len(termSets) |-> JoinTerms(termSets[k])]

(***************************************************************************)
(* graph (package graph is not among the sources: modelled from the        *)
(* specification's data model)                                             *)
(***************************************************************************)
Contains(gr, id) == id \in gr.vertices

Children(gr, id) == IF id \in DOMAIN gr.edges THEN gr.edges[id] ELSE {}

IsRoot(id) == id = RootID

\* drops the last segment
ParentID(id) ==
    LET parts == SplitTerms(id)
    IN JoinTerms(SubSeq(parts, 1, Len(parts) - 1))

\* ParentID(base) + "." + leaf
SiblingID(base, leaf) == ParentID(base) \o <<Dot>> \o leaf

(***************************************************************************)
(* resolver                                                                *)
(***************************************************************************)
NotFound == [elem |-> <<>>, found |-> FALSE]

RECURSIVE FindFrom(_, _, _)
FindFrom(slice, gr, k) ==
    IF k > Len(slice) THEN NotFound
    ELSE IF Contains(gr, slice[k]) THEN [elem |-> slice[k], found |-> TRUE]
    ELSE FindFrom(slice, gr, k + 1)

\* Find(slice, g.Contains): the first element of slice that is a vertex.
Find(slice, gr) == FindFrom(slice, gr, 1)

\* VertexSplit with the remainder cut one symbol early: it keeps the dot
VertexSplit_KeepsDot(gr, s) ==
    LET f == Find(Prefixes(s), gr)
    IN IF ~f.found THEN [vertex |-> <<>>, middle |-> s, found |-> FALSE]
       ELSE IF f.elem = s THEN [vertex |-> f.elem, middle |-> <<>>, found |-> TRUE]
       ELSE [vertex |-> f.elem,
             middle |-> SubSeq(s, Len(f.elem) + 1, Len(s)),
             found |-> TRUE]

VertexSplit(gr, s) ==
    LET f == Find(Prefixes(s), gr)
    IN IF ~f.found THEN [vertex |-> <<>>, middle |-> s, found |-> FALSE]
       ELSE IF f.elem = s THEN [vertex |-> f.elem, middle |-> <<>>, found |-> TRUE]
       ELSE [vertex |-> f.elem,
             middle |-> SubSeq(s, Len(f.elem) + 2, Len(s)),
             found |-> TRUE]

\* MkCallPipeline: the terms joined by " | "
MkCallPipeline(s) == JoinWith(SplitTerms(s), <<" ", "|", " ">>)

\* fmt.Sprintf("%q", s) of a string of letters, digits, dots and dashes: the
\* string between double quotes, nothing escaped.
Quoted(s) == <<"\"">> \o s \o <<"\"">>

DesugarCall(gr, call) ==
    LET vs == VertexSplit(gr, call)
        head == <<"(noderef", " ">> \o Quoted(vs.vertex) \o <<")">>
    IN IF ~vs.found
       THEN [out |-> <<>>, err |-> "syntax error call to non-existant dependency"]
       ELSE IF vs.middle # <<>>
       THEN [out |-> head \o <<"|", " ">> \o MkCallPipeline(vs.middle), err |-> "nil"]
       ELSE [out |-> head, err |-> "nil"]

TraverseUntilModule(gr, id) ==
    IF IsRoot(id) THEN TRUE
    ELSE IF ~Contains(gr, id) THEN TRUE
    ELSE IF gr.kind[id] = "module.Module" THEN TRUE
    ELSE IF gr.kind[id] = "module.Preparer" THEN TRUE
    ELSE IF gr.kind[id] \in {"parse.Node:module", "parse.Node:file"}
    THEN gr.kind[id] = "parse.Node:module"
    ELSE FALSE

(***************************************************************************)
(* resolver runs: the inputs                                               *)
(***************************************************************************)
RECURSIVE StringsUpTo(_)
\* every string of at most n symbols
StringsUpTo(n) ==
    IF n = 0 THEN {<<>>}
    ELSE LET shorter == StringsUpTo(n - 1)
         IN shorter \cup {Append(s, c) : s \in shorter, c \in Alphabet}

RECURSIVE EdgeSets(_, _)
\* every set of at most n of the pairs
EdgeSets(pairs, n) ==
    IF n = 0 THEN {{}}
    ELSE LET fewer == EdgeSets(pairs, n - 1)
         IN fewer \cup {es \cup {e} : es \in fewer, e \in pairs}

\* graph.Connect(from, to) over existing vertices: Children(from) gains to
EdgesOf(V, es) == [v \in V |-> {e[2] : e \in {x \in es : x[1] = v}}]

\* every vertex a task, but for at most one module or parsed node
KindsOf(V) ==
    {[v \in V |-> "task"]}
    \cup {[v \in V |-> IF v = m THEN k ELSE "task"] :
              m \in V, k \in ModuleKinds \cup {"parse.Node:file"}}

\* the graphs VertexSplit and DesugarCall are run on: only the vertex set matters
PlainGraphs ==
    {[vertices |-> V, edges |-> EdgesOf(V, {}), kind |-> [v \in V |-> "task"]] :
         V \in SUBSET VertexUniverse}

\* the graphs VertexSplitTraverse is run on
TraverseGraphs ==
    UNION {{[vertices |-> V, edges |-> EdgesOf(V, es), kind |-> k] :
                es \in EdgeSets(V \X V, MaxEdges), k \in KindsOf(V)} :
           V \in SUBSET VertexUniverse}

\* the names VertexSplitTraverse is asked to resolve
TraverseNames == {<<"a">>, <<"b">>, <<"a", Dot, "a">>}

NoResult == [vertex |-> <<>>, middle |-> <<>>, found |-> FALSE]

\* The graphs of the specification's end-to-end scenarios.
\* Longest-prefix: the vertices a, a.b, a.b.c.
LongestPrefixGraph ==
    LET V == {<<"a">>, <<"a", Dot, "b">>, <<"a", Dot, "b", Dot, "c">>}
    IN [vertices |-> V, edges |-> EdgesOf(V, {}), kind |-> [v \in V |-> "task"]]

LongestPrefixInputs ==
    {<<"a", Dot, "b", Dot, "c", Dot, "d", Dot, "e">>,
     <<"a", Dot, "b", Dot, "x">>,
     <<"z">>}

\* Desugar: the vertex task.go-dl.
DesugarGraph ==
    LET V == {<<"task", Dot, "go-dl">>}
    IN [vertices |-> V, edges |-> EdgesOf(V, {}), kind |-> [v \in V |-> "task"]]

DesugarInputs ==
    {<<"task", Dot, "go-dl", Dot, "dir">>, <<"task", Dot, "go-dl">>}

\* Lexical scope: two modules, a file in each, and their structural parents.
M1Module == <<"root", Dot, "m1", Dot, "module">>
M1FileX == <<"root", Dot, "m1", Dot, "file", Dot, "x">>
M2Module == <<"root", Dot, "m2", Dot, "module">>
M2FileY == <<"root", Dot, "m2", Dot, "file", Dot, "y">>

ScopeVertices ==
    {M1Module, M1FileX, M2Module, M2FileY,
     RootID, <<"root", Dot, "m1">>, <<"root", Dot, "m2">>,
     <<"root", Dot, "m1", Dot, "file">>, <<"root", Dot, "m2", Dot, "file">>}

ScopeGraphs ==
    {[vertices |-> ScopeVertices,
      edges |-> EdgesOf(ScopeVertices, {}),
      kind |-> [v \in ScopeVertices |->
                   IF v \in {M1Module, M2Module} THEN mk
                   ELSE IF v \in {M1FileX, M2FileY} THEN fk
                   ELSE "task"]] :
         mk \in ModuleKinds, fk \in OtherKinds}

ScopeNames == {<<"file", Dot, "x", Dot, "dest">>, <<"file", Dot, "y">>}

\* the introspector, not called
FieldsIdle ==
    /\ fop = "none" /\ arg = <<>> /\ terms = <<>> /\ obj = <<>>
    /\ termIdx = 0 /\ fret = <<>> /\ fpc = "idle"

ResolverInit ==
    /\ FieldsIdle
    /\ CacheIdle
    /\ pc = "call"
    /\ stack = <<>>
    /\ history = {}
    /\ result = NoResult
    /\ \/ /\ op \in {"VertexSplit", "DesugarCall"}
          /\ \/ g \in PlainGraphs /\ toFind \in StringsUpTo(MaxLen)
             \/ g = LongestPrefixGraph /\ toFind \in LongestPrefixInputs
             \/ g = DesugarGraph /\ toFind \in DesugarInputs
          /\ startingNode = <<>>
       \/ /\ op = "VertexSplitTraverse"
          /\ \/ /\ g \in TraverseGraphs
                /\ toFind \in TraverseNames
                /\ startingNode \in VertexUniverse
             \/ /\ g \in ScopeGraphs
                /\ toFind \in ScopeNames
                /\ startingNode \in {M1FileX, M2FileY}

(***************************************************************************)
(* resolver runs: the calls                                                *)
(***************************************************************************)
CallVertexSplit ==
    /\ pc = "call" /\ op = "VertexSplit"
    /\ result' = VertexSplit(g, toFind)
    /\ pc' = "done"
    /\ UNCHANGED <<op, g, toFind, startingNode, stack, history>>
    /\ UNCHANGED introspection

CallDesugarCall ==
    /\ pc = "call" /\ op = "DesugarCall"
    /\ result' = DesugarCall(g, toFind)
    /\ pc' = "done"
    /\ UNCHANGED <<op, g, toFind, startingNode, stack, history>>
    /\ UNCHANGED introspection

\* A frame of VertexSplitTraverse: its startingNode and the children the loop
\* has not come to yet.  On entry the node is put in the history.
Frame(node) == [node |-> node, todo |-> Children(g, node)]

Top == stack[Len(stack)]

Pop == SubSeq(stack, 1, Len(stack) - 1)

\* the caller's call, with the empty history it makes
CallVertexSplitTraverse ==
    /\ pc = "call" /\ op = "VertexSplitTraverse"
    /\ history' = {startingNode}
    /\ stack' = <<Frame(startingNode)>>
    /\ pc' = "run"
    /\ UNCHANGED <<op, g, toFind, startingNode, result>>
    /\ UNCHANGED introspection

\* the loop comes to a child that is in the history or is a stop node: continue
TraverseSkipChild ==
    /\ pc = "run"
    /\ \E child \in Top.todo :
          /\ child \in history \/ TraverseUntilModule(g, child)
          /\ stack' = [stack EXCEPT ![Len(stack)].todo = @ \ {child}]
    /\ UNCHANGED <<op, g, toFind, startingNode, history, result, pc>>
    /\ UNCHANGED introspection

\* the loop comes to any other child: the recursive call on it
TraverseDescend ==
    /\ pc = "run"
    /\ \E child \in Top.todo :
          /\ child \notin history /\ ~TraverseUntilModule(g, child)
          /\ history' = history \cup {child}
          /\ stack' = Append([stack EXCEPT ![Len(stack)].todo = @ \ {child}],
                             Frame(child))
    /\ UNCHANGED <<op, g, toFind, startingNode, result, pc>>
    /\ UNCHANGED introspection

\* the children are exhausted and the node is a stop node: return not found,
\* to the loop of the calling frame or to the caller
TraverseStop ==
    /\ pc = "run"
    /\ Top.todo = {}
    /\ TraverseUntilModule(g, Top.node)
    /\ stack' = Pop
    /\ IF Len(stack) = 1
       THEN /\ result' = [vertex |-> <<>>, middle |-> toFind, found |-> FALSE]
            /\ pc' = "done"
       ELSE UNCHANGED <<result, pc>>
    /\ UNCHANGED <<op, g, toFind, startingNode, history>>
    /\ UNCHANGED introspection

\* the children are exhausted and VertexSplit finds the sibling name: every
\* calling frame returns what its call returned
TraverseFound ==
    /\ pc = "run"
    /\ Top.todo = {}
    /\ ~TraverseUntilModule(g, Top.node)
    /\ LET vs == VertexSplit(g, SiblingID(Top.node, toFind))
       IN /\ vs.found
          /\ result' = vs
    /\ stack' = <<>>
    /\ pc' = "done"
    /\ UNCHANGED <<op, g, toFind, startingNode, history>>
    /\ UNCHANGED introspection

\* the tail call made on the node itself instead of its parent
TraverseParent_SameNode ==
    /\ pc = "run"
    /\ Top.todo = {}
    /\ ~TraverseUntilModule(g, Top.node)
    /\ ~VertexSplit(g, SiblingID(Top.node, toFind)).found
    /\ history' = history \cup {Top.node}
    /\ stack' = Append(Pop, Frame(Top.node))
    /\ UNCHANGED <<op, g, toFind, startingNode, result, pc>>
    /\ UNCHANGED introspection

\* ... and VertexSplit does not: the tail call on the parent
TraverseParent ==
    /\ pc = "run"
    /\ Top.todo = {}
    /\ ~TraverseUntilModule(g, Top.node)
    /\ ~VertexSplit(g, SiblingID(Top.node, toFind)).found
    /\ history' = history \cup {ParentID(Top.node)}
    /\ stack' = Append(Pop, Frame(ParentID(Top.node)))
    /\ UNCHANGED <<op, g, toFind, startingNode, result, pc>>
    /\ UNCHANGED introspection

ResolverNext ==
    \/ CallVertexSplit
    \/ CallDesugarCall
    \/ CallVertexSplitTraverse
    \/ TraverseSkipChild
    \/ TraverseDescend
    \/ TraverseStop
    \/ TraverseFound
    \/ TraverseParent

SpecResolver == ResolverInit /\ [][ResolverNext]_vars

(***************************************************************************)
(* Properties of the resolver                                              *)
(***************************************************************************)
\* The dotted prefixes of s: s itself and every part of s that ends right
\* before a dot.
DottedPrefixes(s) ==
    {SubSeq(s, 1, k) : k \in {j \in 0..Len(s) : j = Len(s) \/ s[j + 1] = Dot}}

VertexPrefixes(gr, s) == {p \in DottedPrefixes(s) : p \in gr.vertices}

SplitDone == pc = "done" /\ op = "VertexSplit"

\* C1: VertexSplit(g, s) returns found = true exactly when some dotted prefix
\* of s is a vertex of g; then the vertex returned is the longest such prefix,
\* it is in g, and the remainder is empty when the prefix is s and otherwise
\* s = prefix + "." + remainder.
C1_VertexSplitLongestPrefix ==
    SplitDone =>
        /\ result.found <=> VertexPrefixes(g, toFind) # {}
        /\ result.found =>
              /\ result.vertex \in VertexPrefixes(g, toFind)
              /\ Contains(g, result.vertex)
              /\ \A q \in VertexPrefixes(g, toFind) : Len(q) <= Len(result.vertex)
              /\ IF result.vertex = toFind
                 THEN result.middle = <<>>
                 ELSE toFind = result.vertex \o <<Dot>> \o result.middle

\* A split that had a shorter vertex prefix to pass over and left a remainder.
C1_Witness ==
    /\ SplitDone
    /\ result.found
    /\ result.middle # <<>>
    /\ Cardinality(VertexPrefixes(g, toFind)) >= 2

\* C2: in the lexical-scope graph, resolving file.x.dest from root.m2.file.y
\* up to the module boundary does not return root.m1.file.x and fails
\* (found = false).
C2_NoResolutionAcrossModules ==
    ( /\ pc = "done" /\ op = "VertexSplitTraverse"
      /\ g \in ScopeGraphs
      /\ toFind = <<"file", Dot, "x", Dot, "dest">>
      /\ startingNode = M2FileY )
    => (result.vertex # M1FileX /\ ~result.found)

\* The graph invariants of the data model: root is a vertex, the structural
\* parent of every other vertex is a vertex, and no vertex depends on itself
\* along the dependency edges.
RECURSIVE ReachableFrom(_, _, _)
ReachableFrom(gr, front, seen) ==
    LET next == UNION {Children(gr, v) : v \in front} \ seen
    IN IF next = {} THEN seen ELSE ReachableFrom(gr, next, seen \cup next)

Acyclic(gr) == \A v \in gr.vertices : v \notin ReachableFrom(gr, {v}, {})

WellFormed(gr) ==
    /\ RootID \in gr.vertices
    /\ \A v \in gr.vertices : v # RootID => ParentID(v) \in gr.vertices
    /\ Acyclic(gr)

\* No vertex depends on a structural ancestor of itself.
NoAncestorDependency(gr) ==
    \A v \in gr.vertices : Children(gr, v) \cap DottedPrefixes(v) = {}

LocalMatch == VertexSplit(g, SiblingID(startingNode, toFind))

\* C3: when the starting node is no stop node and VertexSplit succeeds on the
\* sibling name in the scope of the starting node, VertexSplitTraverse returns
\* that local match (and so no match from the scope of a dependency child or
\* of an ancestor).
C3_LocalScopeFirst ==
    ( /\ pc = "done" /\ op = "VertexSplitTraverse"
      /\ WellFormed(g) /\ NoAncestorDependency(g)
      /\ ~TraverseUntilModule(g, startingNode)
      /\ LocalMatch.found )
    => result = LocalMatch

RECURSIVE PipedFields(_)
\* " | f" for every field of the sequence, in order
PipedFields(fs) ==
    IF fs = <<>> THEN <<>>
    ELSE <<" ", "|", " ">> \o fs[1] \o PipedFields(Tail(fs))

\* C6: for a call of non-empty segments with a matching vertex prefix p,
\* DesugarCall emits
\* (noderef "p") when the remainder is empty and otherwise
\* (noderef "p") | f1 | ... | fn, one space on each side of every pipe, the
\* first included, f1..fn the dot-separated segments of the remainder.
C6_DesugaredSyntax ==
    ( /\ pc = "done" /\ op = "DesugarCall"
      /\ \A k \in 1..Len(SplitTerms(toFind)) : SplitTerms(toFind)[k] # <<>>
      /\ VertexSplit(g, toFind).found )
    => LET vs == VertexSplit(g, toFind)
           ref == <<"(noderef", " ", "\"">> \o vs.vertex \o <<"\"", ")">>
       IN result.out =
              IF vs.middle = <<>> THEN ref
              ELSE ref \o PipedFields(SplitTerms(vs.middle))

(***************************************************************************)
(* Field introspector: names, types and values                             *)
(*                                                                         *)
(* A field name is the sequence of its characters, so that folding case    *)
(* is computed.  A type is what reflect.Type tells of it: its kind, and    *)
(* for a struct its name and its fields in declaration order.  A value is  *)
(* what reflect.Value tells of it: its kind, whether a pointer is nil,     *)
(* what it points to, and the values of a struct's fields.  The content    *)
(* of a string is the path of field names it is stored under, so that two  *)
(* fields of the same name hold different values.                          *)
(***************************************************************************)
UpperCase ==
    <<"A", "B", "C", "D", "E", "F", "G", "H", "I", "J", "K", "L", "M",
      "N", "O", "P", "Q", "R", "S", "T", "U", "V", "W", "X", "Y", "Z">>

LowerCase ==
    <<"a", "b", "c", "d", "e", "f", "g", "h", "i", "j", "k", "l", "m",
      "n", "o", "p", "q", "r", "s", "t", "u", "v", "w", "x", "y", "z">>

ToLowerChar(c) ==
    IF \E i \in 1..Len(UpperCase) : UpperCase[i] = c
    THEN LowerCase[CHOOSE i \in 1..Len(UpperCase) : UpperCase[i] = c]
    ELSE c

\* strings.ToLower
ToLower(s) == [i \in 1..Len(s) |-> ToLowerChar(s[i])]

StringType == [kind |-> "string"]

StructType(name, fields) == [kind |-> "struct", name |-> name, fields |-> fields]

PtrType(elem) == [kind |-> "ptr", elem |-> elem]

\* a declared field, and an embedded (anonymous) one, named after its type
Field(name, type) == [name |-> name, anon |-> FALSE, type |-> type]

Embedded(type) ==
    [name |-> IF type.kind = "ptr" THEN type.elem.name ELSE type.name,
     anon |-> TRUE,
     type |-> type]

RECURSIVE Instances(_, _), FieldInstances(_, _)
\* the values of a type stored under path: every choice of nil and non-nil
\* for its pointers
Instances(type, path) ==
    IF type.kind = "string" THEN {[kind |-> "string", s |-> path]}
    ELSE IF type.kind = "ptr"
    THEN {[kind |-> "ptr", nil |-> TRUE]}
         \cup {[kind |-> "ptr", nil |-> FALSE, elem |-> e] :
                   e \in Instances(type.elem, path)}
    ELSE {[kind |-> "struct", type |-> type.name, fields |-> fs] :
              fs \in FieldInstances(type.fields, path)}

FieldInstances(fields, path) ==
    IF fields = <<>> THEN {<<>>}
    ELSE {<<[name |-> fields[1].name, anon |-> fields[1].anon, val |-> v]>> \o more :
              v \in Instances(fields[1].type, Append(path, fields[1].name)),
              more \in FieldInstances(Tail(fields), path)}

(***************************************************************************)
(* Field introspector: FieldMap and EvalTerms                              *)
(***************************************************************************)
\* m[k] = v of a Go map
MapSet(m, k, v) == [x \in DOMAIN m \cup {k} |-> IF x = k THEN v ELSE m[x]]

EmptyMap == <<>>

NilableKinds == {"ptr", "interface", "slice", "array", "map", "chan", "func"}

canBeNil(r) == r.kind \in NilableKinds

\* Returns true if this is a non-nil pointer or interface
indirectStruct(v) == (v.kind = "ptr" /\ ~v.nil) \/ v.kind = "interface"

RECURSIVE Indirect(_)
\* the loop of FieldMap that follows the pointers down to the value
Indirect(val) == IF indirectStruct(val) THEN Indirect(val.elem) ELSE val

\* reflect panics: NumField of a type that is no struct
FieldMapPanic == [panic |-> TRUE, m |-> EmptyMap]

RECURSIVE FieldMap(_), FieldMapLoop(_, _, _, _, _), MergeEmbedded(_, _, _, _)

\* the loop over the keys of an embedded record's field map: count the key,
\* and keep its value unless the key is taken
MergeEmbedded(sub, keys, results, embeddedRefs) ==
    IF keys = {} THEN [results |-> results, embeddedRefs |-> embeddedRefs]
    ELSE LET k == CHOOSE x \in keys : TRUE
         IN MergeEmbedded(
                sub, keys \ {k},
                IF k \in DOMAIN results THEN results ELSE MapSet(results, k, sub[k]),
                MapSet(embeddedRefs, k,
                       IF k \in DOMAIN embeddedRefs THEN embeddedRefs[k] + 1 ELSE 1))

\* the loop over the keys counted in embedded records: a key counted more than
\* once is bound to the field val declares under that name, or deleted
ResolveAmbiguous(val, results, embeddedRefs, unembeddedRefs) ==
    LET ambiguous == {ref \in DOMAIN embeddedRefs : ~(embeddedRefs[ref] <= 1)}
    IN [k \in DOMAIN results \ (ambiguous \ DOMAIN unembeddedRefs) |->
            IF k \in ambiguous
            THEN val.fields[unembeddedRefs[k]].val
            ELSE results[k]]

\* the loop over the fields of val, from field idx on
FieldMapLoop(val, idx, results, embeddedRefs, unembeddedRefs) ==
    IF idx > Len(val.fields)
    THEN [panic |-> FALSE,
          m |-> ResolveAmbiguous(val, results, embeddedRefs, unembeddedRefs)]
    ELSE LET sfield == val.fields[idx]
         IN IF sfield.anon
            THEN IF canBeNil(sfield.val) /\ sfield.val.nil
                 THEN FieldMapLoop(val, idx + 1,
                                   MapSet(results, sfield.name, sfield.val),
                                   embeddedRefs, unembeddedRefs)
                 ELSE LET sub == FieldMap(sfield.val)
                          merged == MergeEmbedded(sub.m, DOMAIN sub.m,
                                                  results, embeddedRefs)
                      IN IF sub.panic THEN FieldMapPanic
                         ELSE FieldMapLoop(
                                  val, idx + 1,
                                  MapSet(merged.results, sfield.name, sfield.val),
                                  merged.embeddedRefs, unembeddedRefs)
            ELSE FieldMapLoop(val, idx + 1,
                              MapSet(results, sfield.name, sfield.val),
                              embeddedRefs,
                              MapSet(unembeddedRefs, sfield.name, idx))

FieldMap(o) ==
    IF canBeNil(o) /\ o.nil THEN [panic |-> FALSE, m |-> EmptyMap]
    ELSE LET val == Indirect(o)
         IN IF val.kind # "struct" THEN FieldMapPanic
            ELSE FieldMapLoop(val, 1, EmptyMap, EmptyMap, EmptyMap)

RECURSIVE LookupMapsOver(_, _)
\* the lookup maps of src restricted to the lowercase names in lowers
LookupMapsOver(src, lowers) ==
    IF lowers = {} THEN {EmptyMap}
    ELSE LET l == CHOOSE x \in lowers : TRUE
         IN {MapSet(keys, l, k) :
                 keys \in LookupMapsOver(src, lowers \ {l}),
                 k \in {x \in DOMAIN src : ToLower(x) = l}}

\* lookupMap: the keys of src by their lowercase.  Go ranges over src in no
\* fixed order, so of two keys with the same lowercase either may stay.
LookupMaps(src) == LookupMapsOver(src, {ToLower(k) : k \in DOMAIN src})

(***************************************************************************)
(* Field introspector runs: the inputs                                     *)
(***************************************************************************)
\* most fields of a generated record type
MaxFields == 3
\* most terms handed to EvalTerms
MaxTerms == 2

fName == <<"N", "a", "m", "e">>
fShared == <<"S", "h", "a", "r", "e", "d">>
fA == <<"A">>
fB == <<"B">>
fC == <<"C">>
fCfg == <<"C", "f", "g">>
fHost == <<"H", "o", "s", "t">>
tE1 == <<"E", "1">>
tE2 == <<"E", "2">>
tE3 == <<"E", "3">>
tE4 == <<"E", "4">>
fD == <<"D">>
tConfig == <<"C", "o", "n", "f", "i", "g">>
tOuter == <<"O", "u", "t", "e", "r">>

\* the embedded records of scenario 3, two records that embed one of them,
\* and the record of scenario 4
E1 == StructType(tE1, <<Field(fShared, StringType), Field(fA, StringType)>>)
E2 == StructType(tE2, <<Field(fShared, StringType), Field(fB, StringType)>>)
E3 == StructType(tE3, <<Embedded(E2), Field(fC, StringType)>>)
E4 == StructType(tE4, <<Embedded(E2), Field(fD, StringType)>>)
Config == StructType(tConfig, <<Field(fHost, StringType)>>)

\* the fields record types are generated from
FieldPool ==
    {Field(fName, StringType), Field(fShared, StringType),
     Embedded(E1), Embedded(PtrType(E1)),
     Embedded(E2), Embedded(PtrType(E2)),
     Embedded(E3), Embedded(E4),
     Field(fCfg, PtrType(Config))}

RECURSIVE FieldLists(_)
\* every list of at most n fields of the pool with no name declared twice
FieldLists(n) ==
    IF n = 0 THEN {<<>>}
    ELSE LET shorter == FieldLists(n - 1)
         IN shorter \cup
            {fs \in {Append(s, f) : s \in shorter, f \in FieldPool} :
                 \A i \in 1..(Len(fs) - 1) : fs[i].name # fs[Len(fs)].name}

\* scenario 3 with Shared added to Outer, before and after the embedded records
OuterWithShared ==
    {StructType(tOuter, <<Field(fName, StringType), Field(fShared, StringType),
                          Embedded(E1), Embedded(E2)>>),
     StructType(tOuter, <<Field(fName, StringType), Embedded(E1), Embedded(E2),
                          Field(fShared, StringType)>>)}

RecordTypes ==
    {StructType(tOuter, fs) : fs \in FieldLists(MaxFields)} \cup OuterWithShared

\* records, and pointers (nil or not) to the records of scenario 3
RecordValues ==
    UNION {Instances(T, <<>>) : T \in RecordTypes}
    \cup UNION {Instances(PtrType(T), <<>>) : T \in OuterWithShared}

TermPool ==
    {<<"n", "a", "m", "e">>, <<"C", "F", "G">>, <<"H", "o", "s", "t">>,
     <<"s", "h", "a", "r", "e", "d">>, <<"E", "1">>, <<"a">>,
     <<"n", "o", "p", "e">>}

RECURSIVE TermLists(_)
TermLists(n) ==
    IF n = 0 THEN {<<>>}
    ELSE LET shorter == TermLists(n - 1)
         IN shorter \cup {Append(ts, x) : ts \in shorter, x \in TermPool}

\* the records EvalTerms folds over
EvalValues ==
    UNION {Instances(StructType(tOuter, fs), <<>>) : fs \in FieldLists(MaxTerms)}
    \cup UNION {Instances(T, <<>>) : T \in OuterWithShared}

\* the resolver, not called
ResolverIdle ==
    /\ op = "none" /\ g = <<>> /\ toFind = <<>> /\ startingNode = <<>>
    /\ stack = <<>> /\ history = {} /\ result = <<>> /\ pc = "idle"

FieldsInit ==
    /\ ResolverIdle
    /\ CacheIdle
    /\ fpc = "call"
    /\ obj = <<>>
    /\ termIdx = 0
    /\ fret = <<>>
    /\ \/ fop = "FieldMap" /\ arg \in RecordValues /\ terms = <<>>
       \/ fop = "EvalTerms" /\ arg \in EvalValues /\ terms \in TermLists(MaxTerms)

(***************************************************************************)
(* Field introspector runs: the calls                                      *)
(***************************************************************************)
CallFieldMap ==
    /\ fpc = "call" /\ fop = "FieldMap"
    /\ fret' = FieldMap(arg)
    /\ fpc' = "done"
    /\ UNCHANGED <<fop, arg, terms, obj, termIdx>>
    /\ UNCHANGED resolution

CallEvalTerms ==
    /\ fpc = "call" /\ fop = "EvalTerms"
    /\ obj' = arg
    /\ termIdx' = 1
    /\ fpc' = "loop"
    /\ UNCHANGED <<fop, arg, terms, fret>>
    /\ UNCHANGED resolution

\* the loop is at a term
AtTerm == fpc = "loop" /\ termIdx <= Len(terms)

\* term = strings.ToLower(term)
Term == ToLower(terms[termIdx])

\* FieldMap(obj) panics: obj is no record
EvalPanic ==
    /\ AtTerm
    /\ FieldMap(obj).panic
    /\ fret' = [kind |-> "panic"]
    /\ fpc' = "done"
    /\ UNCHANGED <<fop, arg, terms, obj, termIdx>>
    /\ UNCHANGED resolution

\* the term is no key of the lookup map: the error names the valid keys
EvalMissingField ==
    /\ AtTerm
    /\ ~FieldMap(obj).panic
    /\ \E keys \in LookupMaps(FieldMap(obj).m) :
          /\ Term \notin DOMAIN keys
          /\ fret' = [kind |-> "error", err |-> "has no defined field",
                      term |-> Term, validKeys |-> DOMAIN keys]
    /\ fpc' = "done"
    /\ UNCHANGED <<fop, arg, terms, obj, termIdx>>
    /\ UNCHANGED resolution

\* the field is a nil pointer
EvalUnresolvable ==
    /\ AtTerm
    /\ ~FieldMap(obj).panic
    /\ \E keys \in LookupMaps(FieldMap(obj).m) :
          /\ Term \in DOMAIN keys
          /\ LET val == FieldMap(obj).m[keys[Term]]
             IN val.kind = "ptr" /\ val.nil
    /\ fret' = [kind |-> "error", err |-> "ErrUnresolvable"]
    /\ fpc' = "done"
    /\ UNCHANGED <<fop, arg, terms, obj, termIdx>>
    /\ UNCHANGED resolution

\* obj = val.Interface(), and on to the next term
EvalAdvance ==
    /\ AtTerm
    /\ ~FieldMap(obj).panic
    /\ \E keys \in LookupMaps(FieldMap(obj).m) :
          /\ Term \in DOMAIN keys
          /\ LET val == FieldMap(obj).m[keys[Term]]
             IN /\ ~(val.kind = "ptr" /\ val.nil)
                /\ obj' = val
    /\ termIdx' = termIdx + 1
    /\ UNCHANGED <<fop, arg, terms, fret, fpc>>
    /\ UNCHANGED resolution

\* the terms are exhausted
EvalReturn ==
    /\ fpc = "loop" /\ termIdx > Len(terms)
    /\ fret' = [kind |-> "value", val |-> obj]
    /\ fpc' = "done"
    /\ UNCHANGED <<fop, arg, terms, obj, termIdx>>
    /\ UNCHANGED resolution

FieldsNext ==
    \/ CallFieldMap
    \/ CallEvalTerms
    \/ EvalPanic
    \/ EvalMissingField
    \/ EvalUnresolvable
    \/ EvalAdvance
    \/ EvalReturn

SpecFields == FieldsInit /\ [][FieldsNext]_vars

(***************************************************************************)
(* Field introspector: properties                                          *)
(***************************************************************************)
\* FieldMap has returned the map of a record
FieldMapDone ==
    fop = "FieldMap" /\ fpc = "done" /\ Indirect(arg).kind = "struct"

\* the fields of the outer record that are non-nil embedded records
NonNilEmbedded(rec) ==
    {i \in 1..Len(rec.fields) :
         /\ rec.fields[i].anon
         /\ ~(canBeNil(rec.fields[i].val) /\ rec.fields[i].val.nil)}

\* the non-nil embedded records of rec that expose the name k
Exposing(rec, k) ==
    {i \in NonNilEmbedded(rec) : k \in DOMAIN FieldMap(rec.fields[i].val).m}

\* the names the embedded records of rec expose
EmbeddedNames(rec) ==
    UNION {DOMAIN FieldMap(rec.fields[i].val).m : i \in NonNilEmbedded(rec)}

DeclaredNames(rec) == {rec.fields[i].name : i \in 1..Len(rec.fields)}

\* a field declared on the outer record is bound to the outer field
C7_OuterFieldsBound ==
    FieldMapDone =>
        LET rec == Indirect(arg)
        IN \A i \in 1..Len(rec.fields) :
               /\ rec.fields[i].name \in DOMAIN fret.m
               /\ fret.m[rec.fields[i].name] = rec.fields[i].val

\* a name of two or more non-nil embedded records, and not of the outer
\* record, is absent
C7_AmbiguousAbsent ==
    FieldMapDone =>
        LET rec == Indirect(arg)
        IN \A k \in EmbeddedNames(rec) \ DeclaredNames(rec) :
               Cardinality(Exposing(rec, k)) >= 2 => k \notin DOMAIN fret.m

\* a name of exactly one embedded record is present
C7_UniquePresent ==
    FieldMapDone =>
        LET rec == Indirect(arg)
        IN \A k \in EmbeddedNames(rec) :
               Cardinality(Exposing(rec, k)) = 1 => k \in DOMAIN fret.m

\* scenario 3: Outer{Name; E1{Shared, A}; E2{Shared, B}}, and Shared added
C7_Scenario ==
    FieldMapDone =>
        LET rec == Indirect(arg)
            decl == [i \in 1..Len(rec.fields) |-> rec.fields[i].name]
        IN /\ decl = <<fName, tE1, tE2>> /\ NonNilEmbedded(rec) = {2, 3}
              => /\ {fName, fA, fB} \subseteq DOMAIN fret.m
                 /\ fShared \notin DOMAIN fret.m
           /\ \A i \in 1..Len(rec.fields) :
                  rec.fields[i].name = fShared
                  => /\ fShared \in DOMAIN fret.m
                     /\ fret.m[fShared] = rec.fields[i].val

\* C7: FieldMap applies the flattening rules to every record value: a field
\* declared on the outer record is bound to the outer field whatever the
\* embedded records declare, a name of two or more non-nil embedded records
\* that the outer record does not declare is absent, a name of exactly one
\* embedded record is present, and scenario 3 gives name, a, b without shared
\* (with shared, bound to Outer's field, once Outer declares Shared).
C7_FlatteningRules ==
    /\ C7_OuterFieldsBound
    /\ C7_AmbiguousAbsent
    /\ C7_UniquePresent
    /\ C7_Scenario

\* EvalTerms has returned, or has panicked
EvalTermsDone == fop = "EvalTerms" /\ fpc = "done"

\* the lowercase names of the fields of a value; a value that is no record
\* has none
LowerFieldNames(v) ==
    IF FieldMap(v).panic THEN {} ELSE {ToLower(k) : k \in DOMAIN FieldMap(v).m}

\* the fields of v the lowercase name l names
FieldsNamed(v, l) ==
    IF FieldMap(v).panic THEN {}
    ELSE {FieldMap(v).m[k] : k \in {x \in DOMAIN FieldMap(v).m : ToLower(x) = l}}

\* C9: EvalTerms is a left fold of case-insensitive field access: it stops at
\* the first term that names no field of the current value with a missing-field
\* error that lists every lowercase field name of that value, stops at the
\* first field that is a nil pointer with ErrUnresolvable, and returns the
\* current value when the terms are exhausted (obj itself with no terms).
C9_EvalTermsFold ==
    EvalTermsDone =>
        IF termIdx > Len(terms)
        THEN /\ fret = [kind |-> "value", val |-> obj]
             /\ terms = <<>> => fret.val = arg
        ELSE IF ToLower(terms[termIdx]) \notin LowerFieldNames(obj)
        THEN /\ fret.kind = "error"
             /\ fret.err = "has no defined field"
             /\ fret.validKeys = LowerFieldNames(obj)
        ELSE /\ \E val \in FieldsNamed(obj, ToLower(terms[termIdx])) :
                   val.kind = "ptr" /\ val.nil
             /\ fret = [kind |-> "error", err |-> "ErrUnresolvable"]

(***************************************************************************)
(* The type-keyed field map: fieldMap, addFieldsToMap and the cache        *)
(***************************************************************************)
\* most lookups started in a run
MaxLookups == 3

Uint32Type == [kind |-> "uint32"]
BoolType == [kind |-> "bool"]
StateType == [kind |-> "string"]

\* user.Preparer
Preparer ==
    StructType(<<"P", "r", "e", "p", "a", "r", "e", "r">>,
        <<Field(<<"U", "s", "e", "r", "n", "a", "m", "e">>, StringType),
          Field(<<"N", "e", "w", "U", "s", "e", "r", "n", "a", "m", "e">>, StringType),
          Field(<<"U", "I", "D">>, PtrType(Uint32Type)),
          Field(<<"G", "r", "o", "u", "p", "N", "a", "m", "e">>, StringType),
          Field(<<"G", "I", "D">>, PtrType(Uint32Type)),
          Field(fName, StringType),
          Field(<<"H", "o", "m", "e", "D", "i", "r">>, StringType),
          Field(<<"M", "o", "v", "e", "D", "i", "r">>, BoolType),
          Field(<<"S", "t", "a", "t", "e">>, StateType)>>)

\* Outer of scenario 3
Outer == StructType(tOuter, <<Field(fName, StringType), Embedded(E1), Embedded(E2)>>)

\* the types handed to LookupCanonicalFieldName
LookupTypes == {E1, E2, Outer, Preparer, PtrType(StringType)}

\* the names handed to LookupCanonicalFieldName
LookupTerms ==
    {<<"N", "A", "M", "E">>, <<"s", "h", "a", "r", "e", "d">>, <<"b">>,
     <<"H", "O", "M", "E", "D", "I", "R">>, <<"n", "o", "p", "e">>}

RECURSIVE interfaceToConcreteType(_)
\* the loop that follows pointer types down to their element type
interfaceToConcreteType(t) ==
    IF t.kind = "ptr" THEN interfaceToConcreteType(t.elem) ELSE t

\* make(map[string]string): a reference no map has
FreshRef == CHOOSE r \in 1..MaxLookups : r \notin DOMAIN heap

\* the maps still referenced, by the cache or by a goroutine
Reachable(h, cv, cs) ==
    [r \in {x \in DOMAIN h :
                \/ \E t \in DOMAIN cv : cv[t] = x
                \/ \E w \in Goroutines : cs[w].m = x} |-> h[r]]

\* the tail of LookupCanonicalFieldName: the declared name, or the error with
\* the keys of m
CanonicalName(m, term) ==
    IF ToLower(term) \in DOMAIN m
    THEN [kind |-> "name", name |-> m[ToLower(term)]]
    ELSE [kind |-> "error", err |-> "has no field that matches", fields |-> DOMAIN m]

CacheInit ==
    /\ ResolverIdle
    /\ FieldsIdle
    /\ CacheIdle

\* the frame addFieldsToMap is in, and the field its loop is at
TopFrame(w) == calls[w].frames[Len(calls[w].frames)]

AtField(w) ==
    /\ ~crashed
    /\ calls[w].pc = "loop"
    /\ TopFrame(w).idx <= Len(TopFrame(w).t.fields)

CurrentField(w) == TopFrame(w).t.fields[TopFrame(w).idx]

\* the frames with the loop of the top one moved to the next field
NextField(w) ==
    [calls[w].frames EXCEPT ![Len(calls[w].frames)].idx = @ + 1]

\* goroutines in no lookup are interchangeable: the first of them takes the
\* next lookup
FirstIdle(w) ==
    /\ calls[w].pc = "idle"
    /\ \A v \in Goroutines : v < w => calls[v].pc # "idle"

\* where a call of addFieldsToMap returns to
AfterReturn(frames) == IF frames = <<>> THEN "lookup" ELSE "loop"

\* LookupCanonicalFieldName(t, term) up to the call of addFieldsToMap; fieldMap
\* makes the two maps
CallLookup(w, t) ==
    /\ ~crashed
    /\ FirstIdle(w)
    /\ lookups < MaxLookups
    /\ interfaceToConcreteType(t).kind = "struct"
    /\ lookups' = lookups + 1
    /\ heap' = MapSet(heap, FreshRef, EmptyMap)
    /\ calls' = [calls EXCEPT ![w] =
                     [pc |-> "enter", T |-> t,
                      callee |-> interfaceToConcreteType(t),
                      frames |-> <<>>, m |-> FreshRef, conflicts |-> {}]]
    /\ UNCHANGED <<cacheVals, returned, crashed>>
    /\ UNCHANGED <<resolverVars, fieldVars>>

\* LookupCanonicalFieldName on a type that is no struct: fieldMap's error
CallLookupNonStruct(w, t, term) ==
    /\ ~crashed
    /\ FirstIdle(w)
    /\ lookups < MaxLookups
    /\ interfaceToConcreteType(t).kind # "struct"
    /\ lookups' = lookups + 1
    /\ returned' = returned \cup
           {[T |-> t, term |-> term,
             res |-> [kind |-> "error", err |-> "cannot access fields of non-struct type",
                      fields |-> {}]]}
    /\ UNCHANGED <<cacheVals, heap, calls, crashed>>
    /\ UNCHANGED <<resolverVars, fieldVars>>

\* addFieldsToMap, fieldMapCache.Get finds the type: the cached map is returned
\* and becomes the caller's m
GetCached(w) ==
    /\ ~crashed
    /\ calls[w].pc = "enter"
    /\ calls[w].callee.name \in DOMAIN cacheVals
    /\ calls' = [calls EXCEPT ![w].m = cacheVals[calls[w].callee.name],
                              ![w].pc = AfterReturn(calls[w].frames)]
    /\ heap' = Reachable(heap, cacheVals, calls')
    /\ UNCHANGED <<cacheVals, lookups, returned, crashed>>
    /\ UNCHANGED <<resolverVars, fieldVars>>

\* addFieldsToMap, fieldMapCache.Get misses: on to the loop over the fields
GetMissed(w) ==
    /\ ~crashed
    /\ calls[w].pc = "enter"
    /\ calls[w].callee.name \notin DOMAIN cacheVals
    /\ calls' = [calls EXCEPT ![w].frames = Append(@, [t |-> calls[w].callee, idx |-> 1]),
                              ![w].pc = "loop"]
    /\ UNCHANGED <<cacheVals, heap, lookups, returned, crashed>>
    /\ UNCHANGED <<resolverVars, fieldVars>>

\* the loop at an embedded field: its name is added unless taken, and a record
\* type is added by the recursive call
AddEmbeddedField(w) ==
    /\ AtField(w)
    /\ CurrentField(w).anon
    /\ LET field == CurrentField(w)
           lower == ToLower(field.name)
           m == calls[w].m
           anonType == interfaceToConcreteType(field.type)
       IN /\ heap' = IF lower \in DOMAIN heap[m] THEN heap
                     ELSE [heap EXCEPT ![m] = MapSet(@, lower, field.name)]
          /\ calls' = [calls EXCEPT ![w].frames = NextField(w),
                                    ![w].callee = anonType,
                                    ![w].pc = IF anonType.kind = "struct"
                                              THEN "enter" ELSE "loop"]
    /\ UNCHANGED <<cacheVals, lookups, returned, crashed>>
    /\ UNCHANGED <<resolverVars, fieldVars>>

\* the loop at a named field: a name already in m is a conflict, a name that
\* is no conflict is added
AddNamedField(w) ==
    /\ AtField(w)
    /\ ~CurrentField(w).anon
    /\ LET name == CurrentField(w).name
           lower == ToLower(name)
           m == calls[w].m
       IN IF lower \in DOMAIN heap[m]
          THEN /\ calls' = [calls EXCEPT ![w].frames = NextField(w),
                                         ![w].conflicts = @ \cup {lower}]
               /\ UNCHANGED heap
          ELSE /\ calls' = [calls EXCEPT ![w].frames = NextField(w)]
               /\ heap' = IF lower \in calls[w].conflicts THEN heap
                          ELSE [heap EXCEPT ![m] = MapSet(@, lower, name)]
    /\ UNCHANGED <<cacheVals, lookups, returned, crashed>>
    /\ UNCHANGED <<resolverVars, fieldVars>>

\* the loop is over: fieldMapCache.Put(t, m), and m is returned
PutAndReturn(w) ==
    /\ ~crashed
    /\ calls[w].pc = "loop"
    /\ TopFrame(w).idx > Len(TopFrame(w).t.fields)
    /\ cacheVals' = MapSet(cacheVals, TopFrame(w).t.name, calls[w].m)
    /\ LET rest == SubSeq(calls[w].frames, 1, Len(calls[w].frames) - 1)
       IN calls' = [calls EXCEPT ![w].frames = rest,
                                 ![w].pc = AfterReturn(rest)]
    /\ heap' = Reachable(heap, cacheVals', calls')
    /\ UNCHANGED <<lookups, returned, crashed>>
    /\ UNCHANGED <<resolverVars, fieldVars>>

\* LookupCanonicalFieldName from the return of fieldMap on.  The term is an
\* argument of the call that is not read before this point.
ReturnLookup(w, term) ==
    /\ ~crashed
    /\ calls[w].pc = "lookup"
    /\ returned' = returned \cup
           {[T |-> calls[w].T, term |-> term,
             res |-> CanonicalName(heap[calls[w].m], term)]}
    /\ calls' = [calls EXCEPT ![w] = NoCall]
    /\ heap' = Reachable(heap, cacheVals, calls')
    /\ UNCHANGED <<cacheVals, lookups, crashed>>
    /\ UNCHANGED <<resolverVars, fieldVars>>

\* the goroutine's next step reads or writes its m
Touches(w) ==
    \/ calls[w].pc = "lookup"
    \/ calls[w].pc = "loop" /\ TopFrame(w).idx <= Len(TopFrame(w).t.fields)

\* the goroutine's next step writes its m
Writes(w) ==
    /\ AtField(w)
    /\ LET lower == ToLower(CurrentField(w).name)
       IN /\ lower \notin DOMAIN heap[calls[w].m]
          /\ CurrentField(w).anon \/ lower \notin calls[w].conflicts

\* two goroutines are at one map outside the lock and one of them writes it:
\* the runtime may end the program (fatal error: concurrent map writes, or
\* concurrent map read and map write)
ConcurrentMapAccess(w) ==
    /\ ~crashed
    /\ Writes(w)
    /\ \E other \in Goroutines \ {w} :
          Touches(other) /\ calls[other].m = calls[w].m
    /\ crashed' = TRUE
    /\ UNCHANGED <<cacheVals, heap, calls, lookups, returned>>
    /\ UNCHANGED <<resolverVars, fieldVars>>

CacheNext ==
    \/ \E w \in Goroutines, t \in LookupTypes : CallLookup(w, t)
    \/ \E w \in Goroutines, t \in LookupTypes, term \in LookupTerms :
          CallLookupNonStruct(w, t, term)
    \/ \E w \in Goroutines : GetCached(w)
    \/ \E w \in Goroutines : GetMissed(w)
    \/ \E w \in Goroutines : AddEmbeddedField(w)
    \/ \E w \in Goroutines : AddNamedField(w)
    \/ \E w \in Goroutines : PutAndReturn(w)
    \/ \E w \in Goroutines, term \in LookupTerms : ReturnLookup(w, term)
    \/ \E w \in Goroutines : ConcurrentMapAccess(w)

SpecCache == CacheInit /\ [][CacheNext]_vars

(***************************************************************************)
(* The type-keyed field map: properties                                    *)
(***************************************************************************)
\* C4: once the cache holds a mapping for a record type, no step replaces the
\* entry or changes the contents of the cached mapping.
C4_CachedMappingsImmutable ==
    [][\A t \in DOMAIN cacheVals :
           /\ t \in DOMAIN cacheVals'
           /\ cacheVals'[t] = cacheVals[t]
           /\ heap'[cacheVals'[t]] = heap[cacheVals[t]]]_vars

\* C5: LookupCanonicalFieldName(T, n) gives the same result on every call:
\* any two results returned for one type and one name are equal.
C5_SameInputSameMapping ==
    \A r1 \in returned, r2 \in returned :
        (r1.T = r2.T /\ r1.term = r2.term) => r1.res = r2.res

\* the fields of a record type: the embedded ones, and the named ones
EmbeddedFields(T) == {i \in 1..Len(T.fields) : T.fields[i].anon}

NamedFields(T) == {T.fields[i].name : i \in (1..Len(T.fields)) \ EmbeddedFields(T)}

\* the names two or more embedded records of T declare and T does not
AmbiguousNames(T) ==
    {n \in UNION {NamedFields(interfaceToConcreteType(T.fields[i].type)) :
                      i \in EmbeddedFields(T)} :
         /\ n \notin NamedFields(T)
         /\ Cardinality({i \in EmbeddedFields(T) :
                n \in NamedFields(interfaceToConcreteType(T.fields[i].type))}) >= 2}

\* C8: for a record type in which a name is declared in two or more embedded
\* records and not on the type itself, LookupCanonicalFieldName returns the
\* missing-field error for that name.
C8_AmbiguousNamesRemoved ==
    \A r \in returned :
        LET T == interfaceToConcreteType(r.T)
        IN (T.kind = "struct"
            /\ \E n \in AmbiguousNames(T) : ToLower(n) = ToLower(r.term))
           => r.res.kind = "error"

RECURSIVE FlattenedNames(_)
\* the names of the fields of T and of the records it embeds
FlattenedNames(T) ==
    {T.fields[i].name : i \in 1..Len(T.fields)}
    \cup UNION {FlattenedNames(interfaceToConcreteType(T.fields[i].type)) :
                    i \in {j \in EmbeddedFields(T) :
                               interfaceToConcreteType(T.fields[j].type).kind = "struct"}}

\* C10: LookupCanonicalFieldName folds case: a name that is a case variant of
\* the name of a field declared on T gives that field's declared name, and a
\* name that matches no field gives an error whose list holds the lowercase
\* name of every field of T.
C10_CaseFoldedLookup ==
    \A r \in returned :
        LET T == interfaceToConcreteType(r.T)
            declared == IF T.kind = "struct"
                        THEN {T.fields[i].name : i \in 1..Len(T.fields)}
                        ELSE {}
            matching == {F \in declared : ToLower(F) = ToLower(r.term)}
        IN T.kind = "struct" =>
             /\ matching # {} => r.res.kind = "name" /\ r.res.name \in matching
             /\ (\A F \in FlattenedNames(T) : ToLower(F) # ToLower(r.term))
                => /\ r.res.kind = "error"
                   /\ {ToLower(F) : F \in declared} \subseteq r.res.fields

(***************************************************************************)
(* Prefixes on its own                                                     *)
(***************************************************************************)
PrefixesInit ==
    /\ FieldsIdle
    /\ CacheIdle
    /\ pc = "call"
    /\ op = "Prefixes"
    /\ g = <<>>
    /\ toFind \in StringsUpTo(MaxLen)
    /\ startingNode = <<>>
    /\ stack = <<>>
    /\ history = {}
    /\ result = NoResult

CallPrefixes ==
    /\ pc = "call" /\ op = "Prefixes"
    /\ result' = Prefixes(toFind)
    /\ pc' = "done"
    /\ UNCHANGED <<op, g, toFind, startingNode, stack, history>>
    /\ UNCHANGED introspection

PrefixesNext == CallPrefixes

SpecPrefixes == PrefixesInit /\ [][PrefixesNext]_vars

PrefixesDone == pc = "done" /\ op = "Prefixes"

\* how many dots s has
DotCount(s) == Cardinality({i \in 1..Len(s) : s[i] = Dot})

TraverseDone == pc = "done" /\ op = "VertexSplitTraverse"

\* C12: the stop predicate on the starting node suppresses only the recursion
\* to the parent: when the starting node is a stop node (root, a module, or
\* missing) and VertexSplit finds a sibling of it under the name,
\* VertexSplitTraverse still returns a match, and with no children to search
\* it returns that local match.
C12_StopSuppressesOnlyParent ==
    ( /\ TraverseDone
      /\ WellFormed(g)
      /\ TraverseUntilModule(g, startingNode)
      /\ LocalMatch.found
      /\ Len(LocalMatch.vertex) > Len(ParentID(startingNode)) )
    => /\ result.found
       /\ Children(g, startingNode) = {} => result = LocalMatch

RECURSIVE SumOver(_, _)
\* the sum of weight[k] over the frames k of the stack
SumOver(weight, k) == IF k = 0 THEN 0 ELSE weight[k] + SumOver(weight, k - 1)

\* the longest id of the run
IdLen ==
    LET lens == {Len(v) : v \in g.vertices \cup {startingNode}}
    IN CHOOSE n \in lens : \A k \in lens : k <= n

\* more than the children a frame can have left
FrameBase == Cardinality(g.vertices) + 2

\* a frame weighs more the deeper its node is, and more the more children
\* its loop has left
FrameWeight(f) == Len(f.node) * FrameBase + Cardinality(f.todo) + 1

\* more than a stack can weigh
StackBase == (Cardinality(g.vertices) + 2) * (IdLen + 1) * FrameBase

\* The variant of VertexSplitTraverse: the vertices not yet in the visited set
\* count most, then the frames of the recursion by depth of their node and
\* children left; a call not yet made is above, a call that returned is 0.
Variant ==
    IF pc = "call" THEN (Cardinality(g.vertices) + 2) * StackBase
    ELSE IF pc = "run"
    THEN Cardinality(g.vertices \ history) * StackBase
         + SumOver([k \in 1..Len(stack) |-> FrameWeight(stack[k])], Len(stack))
    ELSE 0

\* C13: VertexSplitTraverse with stop = TraverseUntilModule terminates on every
\* graph (with cyclic dependency edges and shared descendants too), name and
\* starting node (root and nodes absent from the graph too): every step of the
\* call makes the variant, a natural number, smaller, so no call runs for
\* ever; a node the call descends into was not in the visited set, and a tail
\* call on the parent is on a shorter id.
C13_TraverseTerminates ==
    [][op = "VertexSplitTraverse" =>
           /\ Variant' < Variant
           /\ Variant' >= 0
           /\ pc' = "run" => stack' # <<>>
           /\ Len(stack') > Len(stack) /\ pc = "run" => Top'.node \notin history
           /\ Len(stack') = Len(stack) /\ Top'.node # Top.node
              => Len(Top'.node) < Len(Top.node)]_vars

\* A call that has returned not found after it went round a dependency cycle
\* and up to the root: the starting node depends on itself along the edges,
\* and the visited set holds it, another vertex and the root.
C13_Witness ==
    /\ TraverseDone
    /\ ~result.found
    /\ startingNode \in g.vertices
    /\ startingNode \in ReachableFrom(g, {startingNode}, {})
    /\ RootID \in history /\ startingNode # RootID
    /\ Cardinality(history) >= 3

====
